---- MODULE Spec2Model ----
(***************************************************************************)
(* A model of cs1000.py, the driver of the Minolta CS-1000                  *)
(* spectroradiometer: the CS1000 object (results, com, remote), its         *)
(* operations connect, disconnect, set_remote and measure, and the text     *)
(* handling of measure (str.split(','), float()).                           *)
(*                                                                          *)
(* A reply line is a sequence of one-character strings over the alphabet    *)
(* digits, ".", "-", " ", ",", "\n" and "x" (any character that is not part *)
(* of a number).  A float is the pair <<m, e>> standing for m / 10^e, with  *)
(* no trailing zero in the fraction, so equal numbers are equal pairs.      *)
(***************************************************************************)
EXTENDS Integers, Sequences, FiniteSets, TLC

(***************************************************************************)
(* Text: str.split(','), str.strip() and float().                           *)
(***************************************************************************)
DigitChars == <<"0", "1", "2", "3", "4", "5", "6", "7", "8", "9">>

IsDigit(c) == \E d \in 1..10 : DigitChars[d] = c

DigitVal(c) == (CHOOSE d \in 1..10 : DigitChars[d] = c) - 1

IsSpace(c) == c \in {" ", "\n"}

\* The index of the first sep in s at or after position p; 0 when there is none.
RECURSIVE Find(_, _, _)
Find(s, sep, p) ==
    IF p > Len(s) THEN 0
    ELSE IF s[p] = sep THEN p
    ELSE Find(s, sep, p + 1)

\* s.split(sep): the pieces between the separators; never an empty list.
RECURSIVE Split(_, _)
Split(s, sep) ==
    LET p == Find(s, sep, 1) IN
    IF p = 0 THEN <<s>>
    ELSE <<SubSeq(s, 1, p - 1)>> \o Split(SubSeq(s, p + 1, Len(s)), sep)

RECURSIVE LStrip(_)
LStrip(s) ==
    IF s # <<>> /\ IsSpace(Head(s)) THEN LStrip(Tail(s)) ELSE s

RECURSIVE RStrip(_)
RStrip(s) ==
    IF s # <<>> /\ IsSpace(s[Len(s)]) THEN RStrip(SubSeq(s, 1, Len(s) - 1)) ELSE s

\* s.strip()
Strip(s) == RStrip(LStrip(s))

AllDigits(s) == \A p \in 1..Len(s) : IsDigit(s[p])

RECURSIVE DigitsVal(_)
DigitsVal(s) ==
    IF s = <<>> THEN 0
    ELSE 10 * DigitsVal(SubSeq(s, 1, Len(s) - 1)) + DigitVal(s[Len(s)])

\* The unsigned part of a number: digits, at most one ".", at least one digit.
IsUnsigned(s) ==
    LET p == Find(s, ".", 1) IN
    IF p = 0 THEN s # <<>> /\ AllDigits(s)
    ELSE /\ AllDigits(SubSeq(s, 1, p - 1))
         /\ AllDigits(SubSeq(s, p + 1, Len(s)))
         /\ Len(s) > 1

\* Whether float(tok) returns (otherwise it raises ValueError).
IsFloat(tok) ==
    LET s == Strip(tok) IN
    IF s # <<>> /\ Head(s) = "-" THEN IsUnsigned(Tail(s)) ELSE IsUnsigned(s)

RECURSIVE Normal(_, _)
Normal(m, e) ==
    IF e > 0 /\ m % 10 = 0 THEN Normal(m \div 10, e - 1) ELSE <<m, e>>

\* float(tok), for a tok with IsFloat(tok).
Float(tok) ==
    LET s    == Strip(tok)
        neg  == s # <<>> /\ Head(s) = "-"
        u    == IF neg THEN Tail(s) ELSE s
        p    == Find(u, ".", 1)
        int  == IF p = 0 THEN u ELSE SubSeq(u, 1, p - 1)
        frac == IF p = 0 THEN <<>> ELSE SubSeq(u, p + 1, Len(u))
        m    == DigitsVal(int \o frac)
    IN  Normal(IF neg THEN 0 - m ELSE m, Len(frac))

(***************************************************************************)
(* The dict self.results.                                                   *)
(***************************************************************************)
EmptyDict == [k \in {} |-> <<>>]

\* A store that keeps the value a key already has (dict.setdefault).
PutKeepOld(d, k, v) ==
    [q \in DOMAIN d \cup {k} |-> IF q \in DOMAIN d THEN d[q] ELSE v]

\* d[k] = v
Put(d, k, v) == [q \in DOMAIN d \cup {k} |-> IF q = k THEN v ELSE d[q]]

(***************************************************************************)
(* The state.  results, com and remote are the attributes of the CS1000     *)
(* object; i and spectrum are locals of measure(); pc is the position of    *)
(* the running measure() ("idle" between calls).  call, status, entry and   *)
(* log record the current (or last) call as its caller and the wire see it: *)
(* its name, how it ended, the attributes at its entry, and every command   *)
(* written and reply line read on the transport, in order.  entry also     *)
(* holds the last RMT command written before the call ("none" when there    *)
(* is none).  measured says whether some measure() has returned normally.   *)
(***************************************************************************)
VARIABLES results, com, remote, pc, i, spectrum, call, status, entry, log,
          measured

vars == <<results, com, remote, pc, i, spectrum, call, status, entry, log,
          measured>>

\* The serial ports a caller connects to.
Ports == {"p1", "p2"}

\* self.com: None, a serial.Serial() that was never opened, or an open port.
ComValues == {"None", "unopened"} \cup Ports

\* for i in range(15)
NSpectral == 15

\* lambd = 380 + np.arange(len(spectrum))
Lambda0 == 380

(***************************************************************************)
(* The transport: self.com.write and self.com.readline.                     *)
(***************************************************************************)
\* How self.com.write(...) ends: None has no write, a port that is not open
\* raises, and an open port raises when the line fails.
WriteStatus(cm, fails) ==
    IF cm = "None" THEN "AttributeError"
    ELSE IF cm = "unopened" THEN "SerialException"
    ELSE IF fails THEN "SerialException"
    ELSE "ok"

WriteEvent(cm, rem, cmd) == [op |-> "w", data |-> cmd, remote |-> rem, com |-> cm]

ReadEvent(cm, rem, line) == [op |-> "r", data |-> line, remote |-> rem, com |-> cm]

\* self.com.write(cmd) followed by one self.com.readline() per reply.  f is
\* the I/O that fails: 0 none, 1 the write, 1 + k the k-th readline.
Transact(lg, cm, rem, cmd, replies, f) ==
    LET ws    == WriteStatus(cm, f = 1)
        nread == IF f = 0 THEN Len(replies) ELSE f - 2
        reads == [k \in 1..nread |-> ReadEvent(cm, rem, replies[k])]
    IN  IF ws # "ok" THEN [log |-> lg, status |-> ws]
        ELSE [log    |-> Append(lg, WriteEvent(cm, rem, cmd)) \o reads,
              status |-> IF f = 0 THEN "ok" ELSE "SerialException"]

\* set_remote with the test of self.remote dropped from the branch that
\* turns remote control on.
set_remote_on_unguarded(on, cm, rem, lg, ack, f) ==
    IF on THEN
        LET t == Transact(lg, cm, rem, "RMT,1", <<ack>>, f) IN
        [com |-> cm, remote |-> (t.status = "ok"), log |-> t.log, status |-> t.status]
    ELSE IF rem THEN
        LET t == Transact(lg, cm, rem, "RMT,0", <<>>, IF f = 1 THEN 1 ELSE 0) IN
        IF t.status = "ok"
        THEN [com |-> "unopened", remote |-> FALSE, log |-> t.log, status |-> "ok"]
        ELSE [com |-> cm, remote |-> rem, log |-> t.log, status |-> t.status]
    ELSE [com |-> cm, remote |-> rem, log |-> lg, status |-> "ok"]

\* set_remote with the test of self.remote dropped from the branch that
\* turns remote control off.
set_remote_off_unguarded(on, cm, rem, lg, ack, f) ==
    IF on /\ ~rem THEN
        LET t == Transact(lg, cm, rem, "RMT,1", <<ack>>, f) IN
        [com |-> cm, remote |-> (t.status = "ok"), log |-> t.log, status |-> t.status]
    ELSE IF ~on THEN
        LET t == Transact(lg, cm, rem, "RMT,0", <<>>, IF f = 1 THEN 1 ELSE 0) IN
        IF t.status = "ok"
        THEN [com |-> "unopened", remote |-> FALSE, log |-> t.log, status |-> "ok"]
        ELSE [com |-> cm, remote |-> rem, log |-> t.log, status |-> t.status]
    ELSE [com |-> cm, remote |-> rem, log |-> lg, status |-> "ok"]

\* set_remote without self.com = serial.Serial() after RMT,0.
set_remote_keeps_handle(on, cm, rem, lg, ack, f) ==
    IF on /\ ~rem THEN
        LET t == Transact(lg, cm, rem, "RMT,1", <<ack>>, f) IN
        [com |-> cm, remote |-> (t.status = "ok"), log |-> t.log, status |-> t.status]
    ELSE IF ~on /\ rem THEN
        LET t == Transact(lg, cm, rem, "RMT,0", <<>>, IF f = 1 THEN 1 ELSE 0) IN
        IF t.status = "ok"
        THEN [com |-> cm, remote |-> FALSE, log |-> t.log, status |-> "ok"]
        ELSE [com |-> cm, remote |-> rem, log |-> t.log, status |-> t.status]
    ELSE [com |-> cm, remote |-> rem, log |-> lg, status |-> "ok"]

\* set_remote with self.remote = True assigned before the write of RMT,1.
set_remote_flag_first(on, cm, rem, lg, ack, f) ==
    IF on /\ ~rem THEN
        LET t == Transact(lg, cm, rem, "RMT,1", <<ack>>, f) IN
        [com |-> cm, remote |-> TRUE, log |-> t.log, status |-> t.status]
    ELSE IF ~on /\ rem THEN
        LET t == Transact(lg, cm, rem, "RMT,0", <<>>, IF f = 1 THEN 1 ELSE 0) IN
        IF t.status = "ok"
        THEN [com |-> "unopened", remote |-> FALSE, log |-> t.log, status |-> "ok"]
        ELSE [com |-> cm, remote |-> rem, log |-> t.log, status |-> t.status]
    ELSE [com |-> cm, remote |-> rem, log |-> lg, status |-> "ok"]

\* set_remote without self.remote = False after RMT,0.
set_remote_keeps_flag(on, cm, rem, lg, ack, f) ==
    IF on /\ ~rem THEN
        LET t == Transact(lg, cm, rem, "RMT,1", <<ack>>, f) IN
        [com |-> cm, remote |-> (t.status = "ok"), log |-> t.log, status |-> t.status]
    ELSE IF ~on /\ rem THEN
        LET t == Transact(lg, cm, rem, "RMT,0", <<>>, IF f = 1 THEN 1 ELSE 0) IN
        IF t.status = "ok"
        THEN [com |-> "unopened", remote |-> rem, log |-> t.log, status |-> "ok"]
        ELSE [com |-> cm, remote |-> rem, log |-> t.log, status |-> t.status]
    ELSE [com |-> cm, remote |-> rem, log |-> lg, status |-> "ok"]

(***************************************************************************)
(* set_remote(on), as a function of the attributes and the log at its call. *)
(***************************************************************************)
set_remote(on, cm, rem, lg, ack, f) ==
    IF on /\ ~rem THEN
        LET t == Transact(lg, cm, rem, "RMT,1", <<ack>>, f) IN
        [com |-> cm, remote |-> (t.status = "ok"), log |-> t.log, status |-> t.status]
    ELSE IF ~on /\ rem THEN
        LET t == Transact(lg, cm, rem, "RMT,0", <<>>, IF f = 1 THEN 1 ELSE 0) IN
        IF t.status = "ok"
        THEN [com |-> "unopened", remote |-> FALSE, log |-> t.log, status |-> "ok"]
        ELSE [com |-> cm, remote |-> rem, log |-> t.log, status |-> t.status]
    ELSE [com |-> cm, remote |-> rem, log |-> lg, status |-> "ok"]

get_connected == com # "None"

get_remote == remote

get_results == results

(***************************************************************************)
(* The replies of the instrument.                                           *)
(***************************************************************************)
Dg(n) == <<DigitChars[n + 1]>>

RECURSIVE JoinFrom(_, _)
JoinFrom(toks, k) ==
    IF k > Len(toks) THEN <<"\n">>
    ELSE (IF k = 1 THEN <<>> ELSE <<",">>) \o toks[k] \o JoinFrom(toks, k + 1)

\* The line "t1,t2,...,tn\n".
Join(toks) == JoinFrom(toks, 1)

\* An acknowledgement, whose content the driver never looks at.
AckLine == <<"O", "K", "0", "0", "\n">>

\* "1.5,1,2,3,4,5,6,7,8,9\n"
LineA == Join(<< <<"1", ".", "5">> >> \o [k \in 1..9 |-> Dg(k)])

\* "9,8,7,6,5,4,3,2,0.20,6500\n"
LineB == Join([k \in 1..8 |-> Dg(10 - k)]
              \o << <<"0", ".", "2", "0">>, <<"6", "5", "0", "0">> >>)

\* "1.5,1,2\n": too few fields.
LineShort == Join(<< <<"1", ".", "5">>, Dg(1), Dg(2) >>)

\* "1.5,x,2,3,4,5,6,7,8,9\n": a field that is no number.
LineBadNum == Join(<< <<"1", ".", "5">>, <<"x">> >> \o [k \in 1..8 |-> Dg(k + 1)])

\* The n-th spectral line (n from 0): ten intensities that depend on n.
SpecLine(n) == Join([k \in 1..10 |-> Dg((n + k - 1) % 10)])

\* "x\n"
SpecBad == <<"x", "\n">>

BlockReplies == {LineA, LineB, LineShort, LineBadNum}

SpecReplies(n) == {SpecLine(n), SpecBad}

(***************************************************************************)
(* Calls.  Every call starts from pc = "idle" and records its entry state.  *)
(***************************************************************************)
\* The last RMT command written in lg, or old when lg has none.
LastRmt(lg, old) ==
    LET at == {k \in 1..Len(lg) : lg[k].op = "w" /\ lg[k].data \in {"RMT,1", "RMT,0"}}
    IN  IF at = {} THEN old
        ELSE lg[CHOOSE k \in at : \A j \in at : j <= k].data

Snapshot ==
    [remote |-> remote, com |-> com, results |-> results,
     lastRmt |-> LastRmt(log, entry.lastRmt)]

Init ==
    /\ results = EmptyDict
    /\ com \in {"None"} \cup Ports
    /\ remote = FALSE
    /\ pc = "idle"
    /\ i = 0
    /\ spectrum = <<>>
    /\ call = "init"
    /\ status = "ok"
    /\ entry = [remote |-> FALSE, com |-> "None", results |-> EmptyDict,
                lastRmt |-> "none"]
    /\ log = <<>>
    /\ measured = FALSE

Idle(name, st) ==
    /\ pc' = "idle"
    /\ i' = 0
    /\ spectrum' = <<>>
    /\ call' = name
    /\ status' = st

SetRemoteCall(on, f) ==
    LET r == set_remote(on, com, remote, <<>>, AckLine, f) IN
    /\ pc = "idle"
    /\ entry' = Snapshot
    /\ com' = r.com
    /\ remote' = r.remote
    /\ log' = r.log
    /\ Idle(IF on THEN "set_remote(True)" ELSE "set_remote(False)", r.status)
    /\ UNCHANGED <<results, measured>>

\* connect that opens the new port before it turns remote control off.
connect_open_first(port, f, opens) ==
    LET cm == IF opens THEN port ELSE com
        r  == IF remote /\ opens THEN set_remote(FALSE, cm, remote, <<>>, AckLine, f)
              ELSE [com |-> cm, remote |-> remote, log |-> <<>>, status |-> "ok"]
    IN
    /\ pc = "idle"
    /\ entry' = Snapshot
    /\ remote' = r.remote
    /\ log' = r.log
    /\ com' = cm
    /\ Idle("connect", IF ~opens THEN "SerialException" ELSE r.status)
    /\ UNCHANGED <<results, measured>>

\* connect(port): opens says whether serial.Serial(port, ...) opens the port.
connect(port, f, opens) ==
    LET r == IF remote THEN set_remote(FALSE, com, remote, <<>>, AckLine, f)
             ELSE [com |-> com, remote |-> remote, log |-> <<>>, status |-> "ok"]
    IN
    /\ pc = "idle"
    /\ entry' = Snapshot
    /\ remote' = r.remote
    /\ log' = r.log
    /\ com' = IF r.status = "ok" /\ opens THEN port ELSE r.com
    /\ Idle("connect", IF r.status # "ok" THEN r.status
                       ELSE IF opens THEN "ok" ELSE "SerialException")
    /\ UNCHANGED <<results, measured>>

\* disconnect that drops the handle without turning remote control off.
disconnect_no_remote_off(f) ==
    /\ pc = "idle"
    /\ entry' = Snapshot
    /\ log' = <<>>
    /\ com' = "None"
    /\ Idle("disconnect", "ok")
    /\ UNCHANGED <<results, remote, measured>>

disconnect(f) ==
    LET r == IF remote THEN set_remote(FALSE, com, remote, <<>>, AckLine, f)
             ELSE [com |-> com, remote |-> remote, log |-> <<>>, status |-> "ok"]
    IN
    /\ pc = "idle"
    /\ entry' = Snapshot
    /\ remote' = r.remote
    /\ log' = r.log
    /\ com' = IF r.status = "ok" THEN "None" ELSE r.com
    /\ Idle("disconnect", r.status)
    /\ UNCHANGED <<results, measured>>

(***************************************************************************)
(* measure(): one action per command of the exchange.                       *)
(***************************************************************************)
\* Fields without the assignment of Duv.
FieldsNoDuv ==
    << [name |-> "Le", idx |-> 0, float |-> TRUE],
       [name |-> "Lv", idx |-> 1, float |-> TRUE],
       [name |-> "X", idx |-> 2, float |-> TRUE],
       [name |-> "Y", idx |-> 3, float |-> TRUE],
       [name |-> "Z", idx |-> 4, float |-> TRUE],
       [name |-> "x", idx |-> 5, float |-> TRUE],
       [name |-> "y", idx |-> 6, float |-> TRUE],
       [name |-> "u", idx |-> 7, float |-> TRUE],
       [name |-> "v", idx |-> 8, float |-> TRUE],
       [name |-> "T", idx |-> 9, float |-> FALSE] >>

\* Fields with Duv taken from the index of T.
FieldsDuvFromT ==
    Append(FieldsNoDuv, [name |-> "Duv", idx |-> 9, float |-> FALSE])

\* The assignments self.results[name + suffix] = ..., in program order: the
\* index into ans, and whether float() is applied.
Fields ==
    << [name |-> "Le", idx |-> 0, float |-> TRUE],
       [name |-> "Lv", idx |-> 1, float |-> TRUE],
       [name |-> "X", idx |-> 2, float |-> TRUE],
       [name |-> "Y", idx |-> 3, float |-> TRUE],
       [name |-> "Z", idx |-> 4, float |-> TRUE],
       [name |-> "x", idx |-> 5, float |-> TRUE],
       [name |-> "y", idx |-> 6, float |-> TRUE],
       [name |-> "u", idx |-> 7, float |-> TRUE],
       [name |-> "v", idx |-> 8, float |-> TRUE],
       [name |-> "T", idx |-> 9, float |-> FALSE],
       [name |-> "Duv", idx |-> 8, float |-> FALSE] >>

\* The assignments from the n-th on, stopping at the first that raises.
RECURSIVE StoreFields(_, _, _, _)
StoreFields(res, ans, sfx, n) ==
    IF n > Len(Fields) THEN [results |-> res, status |-> "ok"]
    ELSE LET fd == Fields[n] IN
         IF fd.idx + 1 > Len(ans) THEN [results |-> res, status |-> "IndexError"]
         ELSE IF fd.float /\ ~IsFloat(ans[fd.idx + 1])
              THEN [results |-> res, status |-> "ValueError"]
         ELSE StoreFields(Put(res, fd.name \o sfx,
                              IF fd.float THEN Float(ans[fd.idx + 1])
                              ELSE ans[fd.idx + 1]),
                          ans, sfx, n + 1)

\* ans = ans.split(','), then the eleven assignments of one observer block.
ParseBlock(res, line, sfx) == StoreFields(res, Split(line, ","), sfx, 1)

\* for a in ans: spectrum.append(float(a.strip()))
RECURSIVE AppendAll(_, _, _)
AppendAll(spec, ans, n) ==
    IF n > Len(ans) THEN [spectrum |-> spec, status |-> "ok"]
    ELSE IF ~IsFloat(Strip(ans[n])) THEN [spectrum |-> spec, status |-> "ValueError"]
    ELSE AppendAll(Append(spec, Float(Strip(ans[n]))), ans, n + 1)

\* SpectrumArray with the wavelengths counted from 1.
SpectrumArrayFromOne(spec) ==
    [k \in 1..Len(spec) |-> <<Normal(Lambda0 + k, 0), spec[k]>>]

\* np.array([380 + np.arange(len(spectrum)), spectrum]).T
SpectrumArray(spec) ==
    [k \in 1..Len(spec) |-> <<Normal(Lambda0 + (k - 1), 0), spec[k]>>]

\* measure() goes on at pc = next, or ends with the exception st.
Continue(st, next) ==
    IF st = "ok"
    THEN /\ pc' = next
         /\ call' = "measure"
         /\ status' = "running"
    ELSE /\ pc' = "idle"
         /\ call' = "measure"
         /\ status' = st

\* measure() that does not turn remote control on.
measure_enter_no_remote(f) ==
    /\ pc = "idle"
    /\ entry' = Snapshot
    /\ log' = <<>>
    /\ Continue("ok", "mes")
    /\ UNCHANGED <<results, com, remote, i, spectrum, measured>>

\* logging.info('Measuring'); if not self.remote: self.set_remote(True)
measure_enter(f) ==
    LET r == IF ~remote THEN set_remote(TRUE, com, remote, <<>>, AckLine, f)
             ELSE [com |-> com, remote |-> remote, log |-> <<>>, status |-> "ok"]
    IN
    /\ pc = "idle"
    /\ entry' = Snapshot
    /\ com' = r.com
    /\ remote' = r.remote
    /\ log' = r.log
    /\ Continue(r.status, "mes")
    /\ UNCHANGED <<results, i, spectrum, measured>>

\* measure_mes that reads one reply line only.
measure_mes_one_reply(f) ==
    LET t == Transact(log, com, remote, "MES,1", <<AckLine>>, IF f = 3 THEN 0 ELSE f) IN
    /\ pc = "mes"
    /\ log' = t.log
    /\ Continue(t.status, "bdr2")
    /\ UNCHANGED <<results, com, remote, i, spectrum, entry, measured>>

\* MES,1 and its two reply lines.
measure_mes(f) ==
    LET t == Transact(log, com, remote, "MES,1", <<AckLine, AckLine>>, f) IN
    /\ pc = "mes"
    /\ log' = t.log
    /\ Continue(t.status, "bdr2")
    /\ UNCHANGED <<results, com, remote, i, spectrum, entry, measured>>

\* BDR,... and its reply line.
measure_bdr(here, cmd, next, f) ==
    LET t == Transact(log, com, remote, cmd, <<AckLine>>, f) IN
    /\ pc = here
    /\ log' = t.log
    /\ Continue(t.status, next)
    /\ UNCHANGED <<results, com, remote, i, spectrum, entry, measured>>

\* & and the data line of an observer block, stored with suffix sfx.
measure_block(here, sfx, next, line, f) ==
    LET t == Transact(log, com, remote, "&", <<line>>, f)
        p == IF t.status = "ok" THEN ParseBlock(results, line, sfx)
             ELSE [results |-> results, status |-> t.status]
    IN
    /\ pc = here
    /\ log' = t.log
    /\ results' = p.results
    /\ Continue(p.status, next)
    /\ UNCHANGED <<com, remote, i, spectrum, entry, measured>>

\* One turn of for i in range(15): & and a line of the spectrum.
measure_loop(line, f) ==
    LET t == Transact(log, com, remote, "&", <<line>>, f)
        a == IF t.status = "ok" THEN AppendAll(spectrum, Split(line, ","), 1)
             ELSE [spectrum |-> spectrum, status |-> t.status]
    IN
    /\ pc = "loop"
    /\ i < NSpectral
    /\ log' = t.log
    /\ spectrum' = IF a.status = "ok" THEN a.spectrum ELSE <<>>
    /\ i' = IF a.status = "ok" THEN i + 1 ELSE 0
    /\ Continue(a.status, "loop")
    /\ UNCHANGED <<results, com, remote, entry, measured>>

\* measure_finish with the loop left one turn early.
measure_finish_early ==
    /\ pc = "loop"
    /\ i = NSpectral - 1
    /\ results' = Put(results, "spectrum", SpectrumArray(spectrum))
    /\ Idle("measure", "ok")
    /\ measured' = TRUE
    /\ UNCHANGED <<com, remote, entry, log>>

\* measure_finish that turns remote control off before it returns.
measure_finish_remote_off ==
    LET r == set_remote(FALSE, com, remote, log, AckLine, 0) IN
    /\ pc = "loop"
    /\ i = NSpectral
    /\ results' = Put(results, "spectrum", SpectrumArray(spectrum))
    /\ Idle("measure", r.status)
    /\ measured' = TRUE
    /\ com' = r.com
    /\ remote' = r.remote
    /\ log' = r.log
    /\ UNCHANGED entry

\* After the loop: self.results['spectrum'] = ...
measure_finish ==
    /\ pc = "loop"
    /\ i = NSpectral
    /\ results' = Put(results, "spectrum", SpectrumArray(spectrum))
    /\ Idle("measure", "ok")
    /\ measured' = TRUE
    /\ UNCHANGED <<com, remote, entry, log>>

measure ==
    \/ \E f \in 0..2 : measure_enter(f)
    \/ \E f \in 0..3 : measure_mes(f)
    \/ \E f \in 0..2 : measure_bdr("bdr2", "BDR,1,0,0", "data2", f)
    \/ \E f \in 0..2, line \in BlockReplies :
          measure_block("data2", "2", "bdr10", line, f)
    \/ \E f \in 0..2 : measure_bdr("bdr10", "BDR,1,1,0", "data10", f)
    \/ \E f \in 0..2, line \in BlockReplies :
          measure_block("data10", "10", "bdrspec", line, f)
    \/ \E f \in 0..2 : measure_bdr("bdrspec", "BDR,0,0,0", "loop", f)
    \/ \E f \in 0..2, line \in SpecReplies(i) : measure_loop(line, f)
    \/ measure_finish

Next ==
    \/ \E on \in BOOLEAN, f \in 0..2 : SetRemoteCall(on, f)
    \/ \E port \in Ports, f \in 0..1, opens \in BOOLEAN : connect(port, f, opens)
    \/ \E f \in 0..1 : disconnect(f)
    \/ measure

Spec == Init /\ [][Next]_vars

(***************************************************************************)
(* One measure() on a newly constructed, connected driver, against an       *)
(* instrument that also sends lines of unusual shape.  At most MaxOdd of    *)
(* the lines of one measurement are unusual lines that measure() accepts.   *)
(***************************************************************************)
MaxOdd == 1

\* "3,4,5,6,7,8,9,0,1,2,3\n": eleven fields.
LineLong == Join([k \in 1..11 |-> Dg((k + 2) % 10)])

\* "1.5,1,2,3,4,5,6,7,8,x\n": the tenth field is no number.
LineBadT == Join(<< <<"1", ".", "5">> >> \o [k \in 1..8 |-> Dg(k)] \o << <<"x">> >>)

\* "1.5,1,2,3,4,5,6,7,8\n": nine fields.
LineNine == Join(<< <<"1", ".", "5">> >> \o [k \in 1..8 |-> Dg(k)])

\* A spectral line of nine intensities, each after a blank.
SpecShort(n) == Join([k \in 1..9 |-> <<" ">> \o Dg((n + k) % 10)])

\* A spectral line of eleven intensities.
SpecLong(n) == Join([k \in 1..11 |-> Dg((n + k + 1) % 10)])

\* "\n"
SpecEmpty == <<"\n">>

OddBlock == {LineLong, LineBadT}

OddSpec(n) == {SpecShort(n), SpecLong(n)}

OddLines == OddBlock \cup UNION {OddSpec(n) : n \in 0..(NSpectral - 1)}

OddCount == Cardinality({k \in 1..Len(log) : log[k].op = "r" /\ log[k].data \in OddLines})

RichBlock == BlockReplies \cup {LineNine} \cup (IF OddCount < MaxOdd THEN OddBlock ELSE {})

RichSpec(n) == SpecReplies(n) \cup {SpecEmpty} \cup (IF OddCount < MaxOdd THEN OddSpec(n) ELSE {})

InitParse == Init /\ com \in Ports

measure_first ==
    /\ call = "init"
    /\ \E f \in 0..2 : measure_enter(f)

measure_rich ==
    \/ \E f \in 0..3 : measure_mes(f)
    \/ \E f \in 0..2 : measure_bdr("bdr2", "BDR,1,0,0", "data2", f)
    \/ \E f \in 0..2, line \in RichBlock :
          measure_block("data2", "2", "bdr10", line, f)
    \/ \E f \in 0..2 : measure_bdr("bdr10", "BDR,1,1,0", "data10", f)
    \/ \E f \in 0..2, line \in RichBlock :
          measure_block("data10", "10", "bdrspec", line, f)
    \/ \E f \in 0..2 : measure_bdr("bdrspec", "BDR,0,0,0", "loop", f)
    \/ \E f \in 0..2, line \in RichSpec(i) : measure_loop(line, f)
    \/ measure_finish

NextParse == measure_first \/ measure_rich

SpecParse == InitParse /\ [][NextParse]_vars

(***************************************************************************)
(* What a call did, read off its record.                                    *)
(***************************************************************************)
\* The call named name has returned, normally or with an exception.
Returned(name) == pc = "idle" /\ call = name

\* ... normally.
ReturnedOk(name) == Returned(name) /\ status = "ok"

\* The commands written, in order.
Written(lg) ==
    LET w == SelectSeq(lg, LAMBDA e : e.op = "w") IN [k \in 1..Len(w) |-> w[k].data]

\* The reply lines read in answer to "&", in order.
DataLines(lg) ==
    LET at == {k \in 2..Len(lg) : /\ lg[k].op = "r"
                                  /\ lg[k - 1].op = "w"
                                  /\ lg[k - 1].data = "&"}
        d  == SelectSeq([k \in 1..Len(lg) |-> IF k \in at THEN lg[k] ELSE [op |-> "-"]],
                        LAMBDA e : e.op = "r")
    IN  [k \in 1..Len(d) |-> d[k].data]

MeasureCommands == {"MES,1", "BDR,1,0,0", "BDR,1,1,0", "BDR,0,0,0", "&"}

(***************************************************************************)
(* Claims.                                                                  *)
(***************************************************************************)
\* C1: every measurement command (MES,1, a BDR command or &) on the wire was
\* written while remote was true, whatever calls came before and however
\* they ended.
C1_MeasureOnlyInRemote ==
    \A k \in 1..Len(log) :
        (log[k].op = "w" /\ log[k].data \in MeasureCommands) => log[k].remote

\* A measure() that was entered with remote off has written MES,1.
C1_Witness ==
    /\ call = "measure"
    /\ ~entry.remote
    /\ \E k \in 1..Len(log) : log[k].op = "w" /\ log[k].data = "MES,1"

\* The commands of a complete measurement, after the optional RMT,1.
MeasureSequence ==
    <<"MES,1", "BDR,1,0,0", "&", "BDR,1,1,0", "&", "BDR,0,0,0">>
        \o [k \in 1..15 |-> "&"]

\* C2: a measure() that returns normally has written RMT,1 first exactly when
\* remote was off at its entry, and then MES,1, BDR,1,0,0, &, BDR,1,1,0, &,
\* BDR,0,0,0 and fifteen &, and nothing else.
C2_FixedCommandOrder ==
    ReturnedOk("measure") =>
        Written(log) = (IF entry.remote THEN <<>> ELSE <<"RMT,1">>) \o MeasureSequence

\* A measure() returned normally after another call had left remote on.
C2_Witness ==
    /\ ReturnedOk("measure")
    /\ entry.remote
    /\ entry.results # EmptyDict

\* How often RMT,1 was written.
CountRmt1(lg) == Len(SelectSeq(lg, LAMBDA e : e.op = "w" /\ e.data = "RMT,1"))

\* C3: when set_remote(True) has returned normally on a connected driver
\* whose remote control was off, and set_remote(True) is called again at
\* once, the two calls together write RMT,1 once: the second call writes
\* nothing, reads nothing and leaves remote true.
C3_SetRemoteOnTwice ==
    [][(/\ ReturnedOk("set_remote(True)")
        /\ ~entry.remote
        /\ entry.com \in Ports
        /\ call' = "set_remote(True)")
       => (/\ CountRmt1(log) + CountRmt1(log') = 1
           /\ log' = <<>>
           /\ remote'
           /\ status' = "ok")]_vars

\* set_remote(True) has returned from a call made with remote on and has
\* written nothing.
C3_Witness ==
    /\ ReturnedOk("set_remote(True)")
    /\ entry.remote
    /\ entry.com \in Ports
    /\ log = <<>>
    /\ remote

\* C4: set_remote(False) called with remote off writes nothing, reads nothing
\* and leaves remote, the transport handle and the stored results as they
\* were.
C4_SetRemoteOffNoOp ==
    (Returned("set_remote(False)") /\ ~entry.remote) =>
        /\ log = <<>>
        /\ status = "ok"
        /\ remote = entry.remote
        /\ com = entry.com
        /\ results = entry.results

\* set_remote(False) was called with remote off on an open port, with
\* results stored.
C4_Witness ==
    /\ Returned("set_remote(False)")
    /\ ~entry.remote
    /\ entry.com \in Ports
    /\ results # EmptyDict

\* C5: after a measure() that ended with an exception, get_results() is the
\* mapping that was stored when that measure() was called.
C5_AbortKeepsResults ==
    (Returned("measure") /\ status # "ok") => get_results = entry.results

\* C6: as long as no measure() has returned normally, get_results() is the
\* empty mapping.
C6_EmptyUntilMeasured ==
    ~measured => get_results = EmptyDict

\* The keys measure() stores for the two observer blocks.
ScalarKeys ==
    {n \o sfx : n \in {"Le", "Lv", "X", "Y", "Z", "x", "y", "u", "v", "T", "Duv"},
                sfx \in {"2", "10"}}

\* C7, as claimed: after a measure() that returned normally the mapping has
\* 21 scalar keys and the key spectrum, 22 keys in all.
C7_TwentyOneScalars ==
    ReturnedOk("measure") =>
        /\ "spectrum" \in DOMAIN results
        /\ Cardinality(DOMAIN results) = 21 + 1

\* C7, amended: after a measure() that returned normally the keys of the
\* mapping are the 22 scalar keys, eleven for each observer block, and the
\* key spectrum, and no other.
C7_TwentyTwoScalars ==
    ReturnedOk("measure") =>
        /\ DOMAIN results = ScalarKeys \cup {"spectrum"}
        /\ Cardinality(ScalarKeys) = 22
        /\ "spectrum" \notin ScalarKeys

\* A measure() returned normally.
C7_Witness ==
    /\ ReturnedOk("measure")
    /\ DataLines(log)[1] = LineA

\* The block of suffix sfx holds the fields of the line: the numbers of
\* t[0..8] in the order Le, Lv, X, Y, Z, x, y, u, v, the raw t[9] as T and
\* the raw t[8] as Duv.
BlockHolds(sfx, line) ==
    LET t == Split(line, ",")
        names == <<"Le", "Lv", "X", "Y", "Z", "x", "y", "u", "v">>
    IN  /\ Len(t) >= 10
        /\ \A k \in 1..9 : results[names[k] \o sfx] = Float(t[k])
        /\ results["T" \o sfx] = t[10]
        /\ results["Duv" \o sfx] = t[9]

\* C8: after a measure() that returned normally, the block of suffix 2 holds
\* the fields of the reply to the first & and the block of suffix 10 those
\* of the reply to the second &.
C8_BlockFields ==
    ReturnedOk("measure") =>
        /\ BlockHolds("2", DataLines(log)[1])
        /\ BlockHolds("10", DataLines(log)[2])

\* A measure() returned normally whose 2-degree line was
\* "9,8,7,6,5,4,3,2,0.20,6500\n": v2 is the number 0.2, Duv2 the text "0.20"
\* and T2 the text "6500\n".
C8_Witness ==
    /\ ReturnedOk("measure")
    /\ DataLines(log)[1] = LineB
    /\ results["v2"] = <<2, 1>>
    /\ results["Duv2"] = <<"0", ".", "2", "0">>
    /\ results["T2"] = <<"6", "5", "0", "0", "\n">>

\* The tokens of the lines from the n-th on, in order.
RECURSIVE Tokens(_, _)
Tokens(lines, n) ==
    IF n > Len(lines) THEN <<>>
    ELSE Split(lines[n], ",") \o Tokens(lines, n + 1)

\* The fifteen spectral lines of a complete measurement.
SpectralLines(lg) == SubSeq(DataLines(lg), 3, 2 + NSpectral)

\* C9: after a measure() that returned normally, spectrum has one pair for
\* every token of the fifteen spectral lines, in the order received; the
\* k-th pair (from 0) is (380 + k, the number of the k-th token); and when
\* every line has ten tokens there are 150 pairs, the last of wavelength 529.
C9_Spectrum ==
    ReturnedOk("measure") =>
        LET lines == SpectralLines(log)
            toks  == Tokens(lines, 1)
            sp    == results["spectrum"]
        IN  /\ Len(lines) = 15
            /\ Len(sp) = Len(toks)
            /\ \A k \in 1..Len(sp) :
                  /\ sp[k][1] = <<380 + (k - 1), 0>>
                  /\ sp[k][2] = Float(toks[k])
            /\ (\A n \in 1..15 : Len(Split(lines[n], ",")) = 10) =>
                  /\ Len(sp) = 150
                  /\ sp[150][1] = <<529, 0>>

\* A measure() returned normally with fifteen lines of ten values.
C9_Witness ==
    /\ ReturnedOk("measure")
    /\ Len(results["spectrum"]) = 150
    /\ results["spectrum"][12] = << <<391, 0>>, <<2, 0>> >>

\* C10: a disconnect() called with remote on that returns normally has
\* written RMT,0, and nothing else, to the port that was open at its entry,
\* and leaves remote false and get_connected() false; a disconnect() called
\* with remote off writes nothing.
C10_Disconnect ==
    /\ (ReturnedOk("disconnect") /\ entry.remote) =>
          /\ Len(log) = 1
          /\ log[1] = WriteEvent(entry.com, TRUE, "RMT,0")
          /\ entry.com \in Ports
          /\ ~get_remote
          /\ ~get_connected
    /\ (Returned("disconnect") /\ ~entry.remote) => log = <<>>

\* A disconnect() called with remote on returned normally.
C10_Witness ==
    /\ ReturnedOk("disconnect")
    /\ entry.remote
    /\ ~get_connected

\* C11: a connect() called with remote on writes nothing but RMT,0, and
\* writes it on the handle held at its entry; when it returns normally it
\* has written RMT,0 there, remote is false and the new port is held, on
\* which connect() has written nothing.
C11_Connect ==
    /\ Returned("connect") =>
          \A k \in 1..Len(log) :
              log[k] = WriteEvent(entry.com, TRUE, "RMT,0") /\ k = 1
    /\ (ReturnedOk("connect") /\ entry.remote) =>
          /\ log = <<WriteEvent(entry.com, TRUE, "RMT,0")>>
          /\ entry.com \in Ports
          /\ ~remote
          /\ com \in Ports

\* A connect() to another port, called with remote on, returned normally.
C11_Witness ==
    /\ ReturnedOk("connect")
    /\ entry.remote
    /\ com # entry.com
    /\ log # <<>>

\* C12: after a disconnect() called with remote on whose write of RMT,0
\* failed, the failure has been raised to the caller and the handle is
\* released: get_connected() is false.
C12_DisconnectCompletes ==
    (Returned("disconnect") /\ entry.remote /\ log = <<>>) =>
        /\ status # "ok"
        /\ ~get_connected

\* The exceptions of self.com.write on a handle that is no open port.
HandleErrors == {"SerialException", "AttributeError"}

\* C13: a set_remote(False) called with remote on that returns normally has
\* written RMT,0 and read nothing, and leaves remote false and an unopened
\* handle; the handle becomes an open port again only by a connect() that
\* returns normally; and a set_remote(True) or measure() called while the
\* handle is no open port raises the exception of the write, writes nothing
\* and leaves remote false.
C13_HandleInvalidated ==
    /\ (ReturnedOk("set_remote(False)") /\ entry.remote) =>
          /\ log = <<WriteEvent(entry.com, TRUE, "RMT,0")>>
          /\ ~remote
          /\ com = "unopened"
    /\ (call # "init" /\ entry.com \notin Ports /\ com \in Ports) =>
          ReturnedOk("connect")
    /\ (call \in {"set_remote(True)", "measure"} /\ entry.com \notin Ports) =>
          /\ pc = "idle"
          /\ status \in HandleErrors
          /\ (entry.com = "unopened" => status = "SerialException")
          /\ log = <<>>
          /\ ~remote

\* A measure() was called on the unopened handle that set_remote(False) left.
C13_Witness ==
    /\ Returned("measure")
    /\ entry.com = "unopened"
    /\ status = "SerialException"

\* The reply lines the protocol gives to a command.
ExpectedReads(cmd) == IF cmd = "MES,1" THEN 2 ELSE IF cmd = "RMT,0" THEN 0 ELSE 1

\* The number of reads that follow position k of lg before the next write.
RECURSIVE ReadsAfter(_, _)
ReadsAfter(lg, k) ==
    IF k + 1 > Len(lg) \/ lg[k + 1].op # "r" THEN 0
    ELSE 1 + ReadsAfter(lg, k + 1)

\* In set_remote(True) and measure() the wire starts with a write, and every
\* write that is followed by another write, or whose call went on or
\* returned normally, is followed by exactly its reply lines: 1 after RMT,1,
\* 2 after MES,1, 1 after a BDR command and 1 after &.
ReadsFollowWrites ==
    call \in {"set_remote(True)", "measure"} =>
        /\ log # <<>> => log[1].op = "w"
        /\ \A k \in 1..Len(log) :
              log[k].op = "w" =>
                  /\ ReadsAfter(log, k) <= ExpectedReads(log[k].data)
                  /\ (\/ status \in {"ok", "running"}
                      \/ \E j \in (k + 1)..Len(log) : log[j].op = "w")
                     => ReadsAfter(log, k) = ExpectedReads(log[k].data)

CountOp(lg, o) == Len(SelectSeq(lg, LAMBDA e : e.op = o))

\* C14, as claimed: the reads follow the writes as specified, and a
\* measure() called with remote on that returns normally has made 20 writes
\* and 22 reads.
C14_TwentyWrites ==
    /\ ReadsFollowWrites
    /\ (ReturnedOk("measure") /\ entry.remote) =>
          /\ CountOp(log, "w") = 20
          /\ CountOp(log, "r") = 22

\* C14, amended: the reads follow the writes as specified, and a measure()
\* called with remote on that returns normally has made 21 writes and 22
\* reads.
C14_TwentyOneWrites ==
    /\ ReadsFollowWrites
    /\ (ReturnedOk("measure") /\ entry.remote) =>
          /\ CountOp(log, "w") = 21
          /\ CountOp(log, "r") = 22

\* A measure() called with remote on returned normally.
C14_Witness ==
    /\ ReturnedOk("measure")
    /\ entry.remote
    /\ log[1] = WriteEvent(com, TRUE, "MES,1")
    /\ ReadsAfter(log, 1) = 2

\* The line splits into exactly n tokens, each of them a number.
WellFormed(line, n) ==
    LET t == Split(line, ",") IN
    /\ Len(t) = n
    /\ \A k \in 1..Len(t) : IsFloat(t[k])

\* C15: a measure() that has read, in answer to &, a line that does not
\* split into ten numeric tokens has ended with a parse error.
C15_MalformedLineRaises ==
    (/\ call = "measure"
     /\ \E k \in 1..Len(DataLines(log)) : ~WellFormed(DataLines(log)[k], 10))
    => (pc = "idle" /\ status \in {"ValueError", "IndexError"})

\* The numbers of the spectral lines from the n-th on, in order.
RECURSIVE Intensities(_, _)
Intensities(lines, n) ==
    IF n > Len(lines) THEN <<>>
    ELSE AppendAll(<<>>, Split(lines[n], ","), 1).spectrum \o Intensities(lines, n + 1)

\* The mapping computed from the data lines of one measurement alone.
FromReplies(lines) ==
    LET b2  == ParseBlock(EmptyDict, lines[1], "2").results
        b10 == ParseBlock(b2, lines[2], "10").results
    IN  Put(b10, "spectrum",
            SpectrumArray(Intensities(SubSeq(lines, 3, Len(lines)), 1)))

\* C16: after a measure() that returned normally the stored mapping is the
\* mapping computed from the replies of that call alone, whatever was
\* stored at its entry.
C16_ResultsReplaced ==
    ReturnedOk("measure") => results = FromReplies(DataLines(log))

\* A measure() returned normally over the results of an earlier one, with
\* other values.
C16_Witness ==
    /\ ReturnedOk("measure")
    /\ "spectrum" \in DOMAIN entry.results
    /\ entry.results # results

\* C17: a set_remote(True) called with remote off returns normally only
\* when RMT,1 was written and its reply read; when the write or the read
\* failed, also for want of an open port, it has raised an exception and
\* remote is still false.
C17_SetRemoteOnFails ==
    (Returned("set_remote(True)") /\ ~entry.remote) =>
        /\ status = "ok" <=>
              log = <<WriteEvent(entry.com, FALSE, "RMT,1"),
                      ReadEvent(entry.com, FALSE, AckLine)>>
        /\ entry.com \notin Ports => status \in HandleErrors
        /\ status # "ok" => ~remote

\* set_remote(True) wrote RMT,1 on an open port and the read of the reply
\* failed.
C17_Witness ==
    /\ Returned("set_remote(True)")
    /\ ~entry.remote
    /\ Len(log) = 1
    /\ status = "SerialException"
    /\ ~remote

\* C18: get_connected() is true exactly when the driver holds an open port,
\* on which a write can succeed.
C18_ConnectedIffOpen ==
    get_connected <=> WriteStatus(com, FALSE) = "ok"

\* C19: whenever remote is true the handle is an open port; remote becomes
\* true only in a step that writes RMT,1 on the handle then held; and the
\* handle does not change while remote stays true.
C19_RemoteImpliesOpen ==
    /\ [](remote => com \in Ports)
    /\ [][(~remote /\ remote') =>
             (log' # <<>> /\ log'[1] = WriteEvent(com', FALSE, "RMT,1"))]_vars
    /\ [][(remote /\ remote') => com' = com]_vars

\* Remote is on after a measure() that ended with an exception.
C19_Witness ==
    /\ remote
    /\ Returned("measure")
    /\ status = "SerialException"
    /\ com \in Ports

(***************************************************************************)
(* The runs without transport failure: no write or read fails, every        *)
(* serial.Serial(port) opens its port, and no call is made that raises the  *)
(* exception of a write on a handle that is no open port.                   *)
(***************************************************************************)
NoFailure == status' \notin HandleErrors

measure_clean ==
    \/ measure_enter(0) /\ NoFailure
    \/ measure_mes(0)
    \/ measure_bdr("bdr2", "BDR,1,0,0", "data2", 0)
    \/ \E line \in BlockReplies : measure_block("data2", "2", "bdr10", line, 0)
    \/ measure_bdr("bdr10", "BDR,1,1,0", "data10", 0)
    \/ \E line \in BlockReplies : measure_block("data10", "10", "bdrspec", line, 0)
    \/ measure_bdr("bdrspec", "BDR,0,0,0", "loop", 0)
    \/ \E line \in SpecReplies(i) : measure_loop(line, 0)
    \/ measure_finish

NextClean ==
    \/ \E on \in BOOLEAN : SetRemoteCall(on, 0) /\ NoFailure
    \/ \E port \in Ports : connect(port, 0, TRUE) /\ NoFailure
    \/ disconnect(0) /\ NoFailure
    \/ measure_clean

SpecClean == Init /\ [][NextClean]_vars

\* The RMT commands the current call has written.
RmtWrites(lg) ==
    SelectSeq(lg, LAMBDA e : e.op = "w" /\ e.data \in {"RMT,1", "RMT,0"})

\* C20: in a run without transport failure, every RMT command written
\* differs from the RMT command written before it, and the first is RMT,1;
\* remote is true exactly when the last RMT command written is RMT,1; and a
\* measure() writes no RMT,0 and has remote true when it returns.
C20_RmtAlternates ==
    /\ Len(RmtWrites(log)) <= 1
    /\ \A k \in 1..Len(RmtWrites(log)) :
          /\ RmtWrites(log)[k].data # entry.lastRmt
          /\ entry.lastRmt = "none" => RmtWrites(log)[k].data = "RMT,1"
    /\ remote <=> LastRmt(log, entry.lastRmt) = "RMT,1"
    /\ call = "measure" =>
          /\ \A k \in 1..Len(log) : ~(log[k].op = "w" /\ log[k].data = "RMT,0")
          /\ remote

\* A measure() that wrote RMT,1 after an earlier RMT,0 has returned.
C20_Witness ==
    /\ ReturnedOk("measure")
    /\ entry.lastRmt = "RMT,0"
    /\ log[1] = WriteEvent(com, FALSE, "RMT,1")
    /\ remote

====
